---- MODULE Spec2Model ----
(***************************************************************************)
(* Model of the spaced-repetition bot (src/bot.py): the update handlers,   *)
(* the task watcher loop and the per-task notification threads, sharing    *)
(* the task table.  The Task model class and the callback-data helpers     *)
(* live in models.py / utils.py, which bot.py only imports; their          *)
(* behaviour is taken from the design document (sections 4.1 and 4.2).     *)
(***************************************************************************)
EXTENDS Integers, Sequences, FiniteSets, Bags, TLC

VARIABLES
    tasks,      \* the task table: row id -> row
    now,        \* get_current_timestamp()
    threads,    \* bag of notification threads started by task_watcher
    watcher,    \* the thread running task_watcher: "running", or "ended" by an exception
    msgs,       \* bag of the messages whose inline keyboard can still produce a callback query
    used,       \* what the environment has done so far: texts typed, threads started, second presses
    last,       \* history: what the step that led here did
    sentSince,  \* history: notifications sent per task since it last left WAITING_ANSWER
    won,        \* history: the task snapshots for which a set_status(WAITING_ANSWER) succeeded
    intervals   \* history: intervals returned by the consecutive REMEMBER answers of a task

vars == <<tasks, now, threads, watcher, msgs, used, last, sentSince, won, intervals>>

----------------------------------------------------------------------------
(* Bounds of the model *)

MaxTasks == 2
MaxTime == 1
MaxTexts == 2
MaxThreads == 2
MaxRepeats == 1

Chats == {1}

----------------------------------------------------------------------------
(* class AnswerOption *)

REMEMBER == "1"
FORGOT == "2"
REMOVE == "3"
ADD_TASK == "4"
CANCEL == "5"

(* class TaskStatus (models.py) *)
ACTIVE == "ACTIVE"
WAITING_ANSWER == "WAITING_ANSWER"
DONE == "DONE"

(* Interval policy of Task.update_notification_date (design document 4.2:
   interval = baseInterval * growthFactor^notificationCount, DONE at the
   learned threshold); the document names the three numbers and gives no
   values, these are small ones with growthFactor > 1 *)
BaseInterval == 1
GrowthFactor == 2
LearnedThreshold == 3

(* Callback-data helpers (design document 4.1) *)
PayloadLimit == 64
SEPARATOR == "|"

LongText == [i \in 1..PayloadLimit |-> "a"]

\* what a user may type
Texts == {<<"a">>, <<"a", SEPARATOR>>, LongText}

PayloadTooLong == "PayloadTooLong"
DuplicateActiveTask == "DuplicateActiveTask"
InvalidTransition == "InvalidTransition"
TransportError == "TransportError"

\* utils.format_task_content: the separator never survives into the content
format_task_content(text) == SelectSeq(text, LAMBDA c : c # SEPARATOR)

\* utils.encode_callback_data: answerTag + separator + content; a token that
\* would exceed the payload limit is refused (the one-element sequence
\* <<PayloadTooLong>> stands for the exception)
encode_callback_data(option, content) ==
    LET token == <<option, SEPARATOR>> \o content
    IN  IF Len(token) > PayloadLimit THEN <<PayloadTooLong>> ELSE token

\* utils.decode_answer_option: the tag is the first character of the token
decode_answer_option(token) == token[1]

\* decode_callback_data cutting the token after the tag only
decode_callback_data_after_tag(token) ==
    IF Len(token) < 2 THEN <<>> ELSE SubSeq(token, 2, Len(token))

\* utils.decode_callback_data: what follows the separator; empty for a bare tag
decode_callback_data(token) ==
    IF Len(token) < 2 THEN <<>> ELSE SubSeq(token, 3, Len(token))

----------------------------------------------------------------------------
(* models.Task *)

RECURSIVE Pow(_, _)
Pow(b, n) == IF n = 0 THEN 1 ELSE b * Pow(b, n - 1)

Ids == DOMAIN tasks

\* the rows matching a key that are not DONE
Matching(chat, content) ==
    {i \in Ids : /\ tasks[i].chat_id = chat
                 /\ tasks[i].content = content
                 /\ tasks[i].status # DONE}

Max(S) == CHOOSE x \in S : \A y \in S : y <= x

\* Task.find_task: the most recent non-DONE row of the key, 0 when there is none
find_task(chat, content) ==
    IF Matching(chat, content) = {} THEN 0 ELSE Max(Matching(chat, content))

\* the row a new task starts as
NewTask(chat, content) ==
    [chat_id |-> chat, content |-> content, status |-> ACTIVE,
     notification_count |-> 0, notification_date |-> now]

\* Task.create as a plain insert, without the look-up of the key
Task_create_unchecked(chat, content) ==
    [signal |-> "", rows |-> Append(tasks, NewTask(chat, content))]

\* Task.create: the table with the new row, or DuplicateActiveTask and the
\* table as it was
Task_create(chat, content) ==
    IF find_task(chat, content) # 0
    THEN [signal |-> DuplicateActiveTask, rows |-> tasks]
    ELSE [signal |-> "", rows |-> Append(tasks, NewTask(chat, content))]

\* get_active_tasks leaving out the rows that are due at this very moment
get_active_tasks_late ==
    {i \in Ids : tasks[i].status = ACTIVE /\ tasks[i].notification_date < now}

\* Task.get_active_tasks: the ids of the rows due now
get_active_tasks ==
    {i \in Ids : tasks[i].status = ACTIVE /\ tasks[i].notification_date <= now}

\* Task.update_notification_date: the row after the answer and the interval returned
\* (0 stands for None)
update_notification_date(row, remember) ==
    IF remember
    THEN LET n == row.notification_count + 1
         IN  IF n >= LearnedThreshold
             THEN [row |-> [row EXCEPT !.notification_count = n, !.status = DONE],
                   ret |-> 0]
             ELSE LET interval == BaseInterval * Pow(GrowthFactor, n)
                  IN  [row |-> [row EXCEPT !.notification_count = n,
                                           !.notification_date = now + interval,
                                           !.status = ACTIVE],
                       ret |-> interval]
    ELSE [row |-> [row EXCEPT !.notification_count = 0,
                              !.notification_date = now + BaseInterval,
                              !.status = ACTIVE],
          ret |-> BaseInterval]

\* Task.set_status on the stored row: its status after the call, or
\* InvalidTransition. WAITING_ANSWER is only entered from ACTIVE (markWaiting);
\* DONE is entered from any status (setDone).
set_status(row, status) ==
    IF status = WAITING_ANSWER /\ row.status # ACTIVE
    THEN InvalidTransition
    ELSE status

----------------------------------------------------------------------------
(* class MessageTemplate: the replies are named by their template *)

ADD_CONFIRMATION == "ADD_CONFIRMATION"
REGULAR_REPLY == "REGULAR_REPLY"
ERROR_MESSAGE == "ERROR_MESSAGE"
TERM_HAS_LEARNED == "TERM_HAS_LEARNED"
REMEMBER_REPLY == "REMEMBER"
FORGOT_REPLY == "FORGOT"

\* what stands for "no row"
NoRow ==
    [chat_id |-> 0, content |-> <<>>, status |-> "", notification_count |-> 0,
     notification_date |-> 0]

\* the record kept of the step that led to a state, when it was a handler's or
\* a notification thread's: the operation, the (chat, content) it carried, the
\* row it addressed and that row before the step, the row the pressed
\* notification had been sent for, the interval returned, the reply text, the
\* exception raised, and whether a thread's claim repeated an earlier one
Step(op, key, task, src, ret, reply, signal) ==
    [op |-> op, key |-> key, task |-> task,
     was |-> IF task \in Ids THEN tasks[task] ELSE NoRow,
     src |-> src, ret |-> ret, reply |-> reply, signal |-> signal,
     again |-> FALSE]

NoStep == Step("", <<>>, 0, 0, 0, "", "")

Init ==
    /\ tasks = <<>>
    /\ now = 0
    /\ threads = EmptyBag
    /\ watcher = "running"
    /\ msgs = EmptyBag
    /\ used = [texts |-> 0, threads |-> 0, repeats |-> 0]
    /\ last = NoStep
    /\ sentSince = <<>>
    /\ won = {}
    /\ intervals = <<>>

----------------------------------------------------------------------------
(* The clock and the messages *)

\* time passes
clock ==
    /\ now < MaxTime
    /\ now' = now + 1
    /\ last' = NoStep
    /\ UNCHANGED <<tasks, threads, watcher, msgs, used, sentSince, won, intervals>>

\* A message that carries an inline keyboard is a record: its chat, the
\* callback data of its buttons, the row it was sent for (0 for a dialog),
\* whether the keyboard is still shown, and whether it was sent while a
\* callback query of an edited message was still on its way.
\* A message with shown = FALSE has lost its keyboard, and one more callback
\* query of it, pressed before the edit, is still to be handled.
InFlight == {m \in BagToSet(msgs) : ~m.shown}


\* callback queries are handled in the order of the presses: a message sent
\* after a press is answered after that press was handled
InOrder(m) == m.young => \A s \in InFlight \ {m} : s.young

Older(m) == [m EXCEPT !.young = FALSE]

\* once no callback query is on its way, the order of the past is forgotten
Settle(b) ==
    IF \E m \in BagToSet(b) : ~m.shown THEN b ELSE BagOfAll(Older, b)

\* bot.send_message: a new message with its inline keyboard
send_message(chat, buttons, task) ==
    msgs' = msgs (+) SetToBag({[chat_id |-> chat, buttons |-> buttons,
                                task |-> task, shown |-> TRUE,
                                young |-> InFlight # {}]})

\* edit_message: the text replaces the message, and its keyboard is gone; the
\* user may have pressed a second button before that
edit_message(q) ==
    \/ /\ msgs' = Settle(msgs (-) SetToBag({q.msg}))
       /\ used' = used
    \/ /\ q.msg.shown
       /\ used.repeats < MaxRepeats
       /\ msgs' = (msgs (-) SetToBag({q.msg}))
                    (+) SetToBag({[q.msg EXCEPT !.shown = FALSE]})
       /\ used' = [used EXCEPT !.repeats = @ + 1]

\* a handler that raises never reaches edit_message: the keyboard stays as it is
no_edit(q) ==
    /\ msgs' = IF q.msg.shown THEN msgs ELSE Settle(msgs (-) SetToBag({q.msg}))
    /\ used' = used

----------------------------------------------------------------------------
(* The update handlers; the dispatcher runs them one at a time *)

\* handle_text storing the term at once (create_task, line 187) besides asking
handle_text_stores ==
    \E chat \in Chats, text \in Texts :
        LET user_message == format_task_content(text)
            encoded_task == encode_callback_data(ADD_TASK, user_message)
            created == Task_create(chat, user_message)
        IN  /\ used.texts < MaxTexts
            /\ used' = [used EXCEPT !.texts = @ + 1]
            /\ encoded_task # <<PayloadTooLong>>
            /\ Len(created.rows) <= MaxTasks
            /\ send_message(chat, {encoded_task, <<CANCEL>>}, 0)
            /\ last' = NoStep
            /\ tasks' = created.rows
            /\ sentSince' = IF created.signal = "" THEN Append(sentSince, 0)
                            ELSE sentSince
            /\ intervals' = IF created.signal = "" THEN Append(intervals, <<>>)
                            ELSE intervals
            /\ UNCHANGED <<now, threads, watcher, won>>

\* handle_text: the confirmation dialog for a term the user typed
handle_text ==
    \E chat \in Chats, text \in Texts :
        LET user_message == format_task_content(text)
            encoded_task == encode_callback_data(ADD_TASK, user_message)
        IN  /\ used.texts < MaxTexts
            /\ used' = [used EXCEPT !.texts = @ + 1]
            /\ IF encoded_task = <<PayloadTooLong>>
               THEN /\ last' = Step("text", <<chat, user_message>>, 0, 0, 0, "",
                                     PayloadTooLong)
                    /\ UNCHANGED msgs
               ELSE /\ send_message(chat, {encoded_task, <<CANCEL>>}, 0)
                    /\ last' = NoStep
            /\ UNCHANGED <<tasks, now, threads, watcher, sentSince, won, intervals>>

\* handle_task_creation_dialog, for the callback query q
handle_task_creation_dialog(q) ==
    LET answer == decode_answer_option(q.data)
        content == decode_callback_data(q.data)
        chat_id == q.msg.chat_id
        created == Task_create(chat_id, content)
    IN  IF answer = ADD_TASK
        THEN /\ Len(created.rows) <= MaxTasks
             /\ tasks' = created.rows
             /\ IF created.signal # ""
                THEN \* the exception leaves the handler before edit_message
                     /\ no_edit(q)
                     /\ last' = Step(ADD_TASK, <<chat_id, content>>, 0, 0, 0, "",
                                     created.signal)
                     /\ UNCHANGED <<sentSince, intervals>>
                ELSE /\ edit_message(q)
                     /\ last' = Step(ADD_TASK, <<chat_id, content>>,
                                     Len(created.rows), 0, 0, ADD_CONFIRMATION, "")
                     /\ sentSince' = Append(sentSince, 0)
                     /\ intervals' = Append(intervals, <<>>)
        ELSE /\ answer = CANCEL
             /\ edit_message(q)
             /\ last' = Step(CANCEL, <<chat_id, content>>, 0, 0, 0, REGULAR_REPLY, "")
             /\ UNCHANGED <<tasks, sentSince, intervals>>

\* quiz_answer with line 114 calling update_notification_date(remember=False)
quiz_answer_remember_resets(row, answer) ==
    IF answer = REMEMBER
    THEN LET r == update_notification_date(row, FALSE)
         IN  [row |-> r.row, ret |-> r.ret,
              reply |-> IF r.ret # 0 THEN REMEMBER_REPLY ELSE TERM_HAS_LEARNED]
    ELSE IF answer = FORGOT
    THEN LET r == update_notification_date(row, FALSE)
         IN  [row |-> r.row, ret |-> r.ret, reply |-> FORGOT_REPLY]
    ELSE [row |-> [row EXCEPT !.status = set_status(row, DONE)], ret |-> 0,
          reply |-> REGULAR_REPLY]

\* quiz_answer with line 128 calling update_notification_date(remember=True)
quiz_answer_forgot_counts(row, answer) ==
    IF answer = REMEMBER \/ answer = FORGOT
    THEN LET r == update_notification_date(row, TRUE)
         IN  [row |-> r.row, ret |-> r.ret,
              reply |-> IF answer = FORGOT THEN FORGOT_REPLY
                        ELSE IF r.ret # 0 THEN REMEMBER_REPLY ELSE TERM_HAS_LEARNED]
    ELSE [row |-> [row EXCEPT !.status = set_status(row, DONE)], ret |-> 0,
          reply |-> REGULAR_REPLY]

\* quiz_answer with line 133 setting TaskStatus.ACTIVE
quiz_answer_remove_reactivates(row, answer) ==
    IF answer = REMEMBER
    THEN LET r == update_notification_date(row, TRUE)
         IN  [row |-> r.row, ret |-> r.ret,
              reply |-> IF r.ret # 0 THEN REMEMBER_REPLY ELSE TERM_HAS_LEARNED]
    ELSE IF answer = FORGOT
    THEN LET r == update_notification_date(row, FALSE)
         IN  [row |-> r.row, ret |-> r.ret, reply |-> FORGOT_REPLY]
    ELSE [row |-> [row EXCEPT !.status = set_status(row, ACTIVE)], ret |-> 0,
          reply |-> REGULAR_REPLY]

\* quiz_answer with the tests of lines 113 and 127 exchanged
quiz_answer_swapped(row, answer) ==
    IF answer = FORGOT
    THEN LET r == update_notification_date(row, TRUE)
         IN  [row |-> r.row, ret |-> r.ret,
              reply |-> IF r.ret # 0 THEN REMEMBER_REPLY ELSE TERM_HAS_LEARNED]
    ELSE IF answer = REMEMBER
    THEN LET r == update_notification_date(row, FALSE)
         IN  [row |-> r.row, ret |-> r.ret, reply |-> FORGOT_REPLY]
    ELSE [row |-> [row EXCEPT !.status = set_status(row, DONE)], ret |-> 0,
          reply |-> REGULAR_REPLY]

\* quiz_answer with the test of line 116 always taking its first branch
quiz_answer_always_next(row, answer) ==
    IF answer = REMEMBER
    THEN LET r == update_notification_date(row, TRUE)
         IN  [row |-> r.row, ret |-> r.ret, reply |-> REMEMBER_REPLY]
    ELSE IF answer = FORGOT
    THEN LET r == update_notification_date(row, FALSE)
         IN  [row |-> r.row, ret |-> r.ret, reply |-> FORGOT_REPLY]
    ELSE [row |-> [row EXCEPT !.status = set_status(row, DONE)], ret |-> 0,
          reply |-> REGULAR_REPLY]

\* handle_quiz_dialog, lines 112-134: what the answer does to the row found
quiz_answer(row, answer) ==
    IF answer = REMEMBER
    THEN LET r == update_notification_date(row, TRUE)
         IN  [row |-> r.row, ret |-> r.ret,
              reply |-> IF r.ret # 0 THEN REMEMBER_REPLY ELSE TERM_HAS_LEARNED]
    ELSE IF answer = FORGOT
    THEN LET r == update_notification_date(row, FALSE)
         IN  [row |-> r.row, ret |-> r.ret, reply |-> FORGOT_REPLY]
    ELSE [row |-> [row EXCEPT !.status = set_status(row, DONE)], ret |-> 0,
          reply |-> REGULAR_REPLY]

\* the rows of a key, DONE or not
AllOfKey(chat, content) ==
    {i \in Ids : tasks[i].chat_id = chat /\ tasks[i].content = content}

\* quiz_outcome with the look-up of line 105 not leaving out the DONE rows
quiz_outcome_any_status(chat_id, content, answer) ==
    LET task == IF AllOfKey(chat_id, content) = {} THEN 0
                ELSE Max(AllOfKey(chat_id, content))
    IN  IF task = 0
        THEN [task |-> 0, rows |-> tasks, ret |-> 0, reply |-> ERROR_MESSAGE]
        ELSE LET r == quiz_answer(tasks[task], answer)
             IN  [task |-> task, rows |-> [tasks EXCEPT ![task] = r.row],
                  ret |-> r.ret, reply |-> r.reply]

\* quiz_outcome with the look-up of line 105 by the content alone: the answer
\* is applied to every row of the content that is not DONE
quiz_outcome_any_chat(chat_id, content, answer) ==
    LET found == {i \in Ids : tasks[i].content = content /\ tasks[i].status # DONE}
    IN  IF found = {}
        THEN [task |-> 0, rows |-> tasks, ret |-> 0, reply |-> ERROR_MESSAGE]
        ELSE LET r == quiz_answer(tasks[Max(found)], answer)
             IN  [task |-> Max(found),
                  rows |-> [i \in Ids |-> IF i \in found
                                          THEN quiz_answer(tasks[i], answer).row
                                          ELSE tasks[i]],
                  ret |-> r.ret, reply |-> r.reply]

\* handle_quiz_dialog, lines 105-134: the row looked up (0 when there is none),
\* the table after the answer, the interval returned and the reply
quiz_outcome(chat_id, content, answer) ==
    LET task == find_task(chat_id, content)
    IN  IF task = 0
        THEN [task |-> 0, rows |-> tasks, ret |-> 0, reply |-> ERROR_MESSAGE]
        ELSE LET r == quiz_answer(tasks[task], answer)
             IN  [task |-> task, rows |-> [tasks EXCEPT ![task] = r.row],
                  ret |-> r.ret, reply |-> r.reply]

\* handle_quiz_dialog, for the callback query q
handle_quiz_dialog(q) ==
    LET answer == decode_answer_option(q.data)
        chat_id == q.msg.chat_id
        content == decode_callback_data(q.data)
        r == quiz_outcome(chat_id, content, answer)
        task == r.task
    IN  /\ tasks' = r.rows
        /\ edit_message(q)
        /\ last' = Step(answer, <<chat_id, content>>, task, q.msg.task, r.ret,
                        r.reply, "")
        /\ sentSince' = IF /\ task # 0
                           /\ tasks[task].status = WAITING_ANSWER
                           /\ r.rows[task].status # WAITING_ANSWER
                        THEN [sentSince EXCEPT ![task] = 0]
                        ELSE sentSince
        /\ intervals' = IF task # 0 /\ answer = REMEMBER /\ r.ret # 0
                        THEN [intervals EXCEPT ![task] = Append(@, r.ret)]
                        ELSE IF task # 0 /\ answer = FORGOT
                        THEN [intervals EXCEPT ![task] = <<>>]
                        ELSE intervals

\* callback_handler, lines 142-149: the answers of the two dialogs
task_creation_answers == {ADD_TASK, CANCEL}

quiz_answers == {REMEMBER, FORGOT, REMOVE}

\* callback_handler: the user has pressed a button and the dispatcher hands
\* the callback query over
callback_handler ==
    \E m \in BagToSet(msgs) : \E data \in m.buttons :
        LET q == [msg |-> m, data |-> data]
            answer == decode_answer_option(data)
        IN  /\ InOrder(m)
            /\ IF answer \in task_creation_answers
               THEN handle_task_creation_dialog(q)
               ELSE /\ answer \in quiz_answers
                    /\ handle_quiz_dialog(q)
            /\ UNCHANGED <<now, threads, watcher, won>>

----------------------------------------------------------------------------
(* The scheduler *)

\* the thread task_watcher starts for a due row: it holds the row as read
Thread(i) == [task |-> i, snap |-> tasks[i], pc |-> "start"]

\* task_watcher, one turn of the loop: a thread per row of get_active_tasks
task_watcher ==
    LET due == get_active_tasks
    IN  /\ watcher = "running"
        /\ due # {}
        /\ used.threads + Cardinality(due) <= MaxThreads
        /\ used' = [used EXCEPT !.threads = @ + Cardinality(due)]
        /\ threads' = threads (+) SetToBag({Thread(i) : i \in due})
        /\ last' = NoStep
        /\ UNCHANGED <<tasks, now, watcher, msgs, sentSince, won, intervals>>

\* task_watcher, line 198: the query of the table raises (the store is
\* written by the handlers and the notification threads at the same time);
\* nothing in the loop catches, and the exception ends the watcher's thread
task_watcher_fails ==
    /\ watcher = "running"
    /\ watcher' = "ended"
    /\ last' = NoStep
    /\ UNCHANGED <<tasks, now, threads, msgs, used, sentSince, won, intervals>>

\* the three buttons of a notification (remind_task_to_user, lines 163-171)
quiz_buttons(content) ==
    {encode_callback_data(REMEMBER, content),
     encode_callback_data(FORGOT, content),
     encode_callback_data(REMOVE, content)}

\* remind_task_to_user up to line 179: the buttons are encoded and the status
\* is written; an exception ends the thread
remind_set_status(th) ==
    LET i == th.task
        status == set_status(tasks[i], WAITING_ANSWER)
        key == [task |-> i, date |-> th.snap.notification_date]
    IN  /\ th.pc = "start"
        /\ IF <<PayloadTooLong>> \in quiz_buttons(th.snap.content)
           THEN /\ threads' = threads (-) SetToBag({th})
                /\ last' = Step("claim", <<>>, i, 0, 0, "", PayloadTooLong)
                /\ UNCHANGED <<tasks, won>>
           ELSE IF status = InvalidTransition
           THEN /\ threads' = threads (-) SetToBag({th})
                /\ last' = Step("claim", <<>>, i, 0, 0, "", InvalidTransition)
                /\ UNCHANGED <<tasks, won>>
           ELSE /\ tasks' = [tasks EXCEPT ![i].status = status]
                /\ threads' = (threads (-) SetToBag({th}))
                                (+) SetToBag({[th EXCEPT !.pc = "marked"]})
                /\ won' = won \cup {key}
                /\ last' = [Step("claim", <<>>, i, 0, 0, "", "")
                              EXCEPT !.again = key \in won]
        /\ UNCHANGED <<now, watcher, msgs, used, sentSince, intervals>>

\* remind_task_to_user, lines 180-184: the notification is sent
remind_send_message(th) ==
    /\ th.pc = "marked"
    /\ send_message(th.snap.chat_id, quiz_buttons(th.snap.content), th.task)
    /\ threads' = threads (-) SetToBag({th})
    /\ sentSince' = [sentSince EXCEPT ![th.task] = @ + 1]
    /\ last' = Step("send", <<>>, th.task, 0, 0, "", "")
    /\ UNCHANGED <<tasks, now, watcher, used, won, intervals>>

\* remind_send_fails putting the task back to ACTIVE
remind_send_fails_reverts(th) ==
    /\ th.pc = "marked"
    /\ threads' = threads (-) SetToBag({th})
    /\ tasks' = [tasks EXCEPT ![th.task].status = ACTIVE]
    /\ last' = Step("send", <<>>, th.task, 0, 0, "", TransportError)
    /\ UNCHANGED <<now, watcher, msgs, used, sentSince, won, intervals>>

\* remind_task_to_user, line 180: the transport refuses the message
remind_send_fails(th) ==
    /\ th.pc = "marked"
    /\ threads' = threads (-) SetToBag({th})
    /\ last' = Step("send", <<>>, th.task, 0, 0, "", TransportError)
    /\ UNCHANGED <<tasks, now, watcher, msgs, used, sentSince, won, intervals>>

remind_task_to_user ==
    \E th \in BagToSet(threads) :
        \/ remind_set_status(th)
        \/ remind_send_message(th)
        \/ remind_send_fails(th)

----------------------------------------------------------------------------

Next ==
    \/ clock
    \/ handle_text
    \/ callback_handler
    \/ task_watcher
    \/ remind_task_to_user

Spec == Init /\ [][Next]_vars

\* the same program with a store whose query may raise in task_watcher; a
\* watcher that has ended only takes steps away, so what holds of the rows and
\* messages under Spec holds under SpecStoreFault as well
NextStoreFault == Next \/ task_watcher_fails

SpecStoreFault == Init /\ [][NextStoreFault]_vars

\* The program some time after its start, when the user has stored two terms
\* and both are due
TwoTerms == <<<<"a">>, <<"b">>>>

TwoTasksInit ==
    /\ tasks = [i \in 1..2 |->
                  [chat_id |-> 1, content |-> TwoTerms[i], status |-> ACTIVE,
                   notification_count |-> 0, notification_date |-> 0]]
    /\ now = 0
    /\ threads = EmptyBag
    /\ watcher = "running"
    /\ msgs = EmptyBag
    /\ used = [texts |-> 0, threads |-> 0, repeats |-> 0]
    /\ last = NoStep
    /\ sentSince = <<0, 0>>
    /\ won = {}
    /\ intervals = << <<>>, <<>> >>

\* The program when two chats are learning: chat 1 has stored two terms, one
\* due and one whose notification the transport refused, and chat 2 has been
\* asked about a term that chat 1 has stored too
NotificationOf(i, rows) ==
    [chat_id |-> rows[i].chat_id, buttons |-> quiz_buttons(rows[i].content),
     task |-> i, shown |-> TRUE, young |-> FALSE]

TwoChatsRows ==
    <<[chat_id |-> 1, content |-> <<"a">>, status |-> ACTIVE,
       notification_count |-> 0, notification_date |-> 0],
      [chat_id |-> 1, content |-> <<"b">>, status |-> WAITING_ANSWER,
       notification_count |-> 0, notification_date |-> 0],
      [chat_id |-> 2, content |-> <<"a">>, status |-> WAITING_ANSWER,
       notification_count |-> 0, notification_date |-> 0]>>

TwoChatsInit ==
    /\ tasks = TwoChatsRows
    /\ now = 0
    /\ threads = EmptyBag
    /\ watcher = "running"
    /\ msgs = SetToBag({NotificationOf(3, TwoChatsRows)})
    /\ used = [texts |-> 0, threads |-> 0, repeats |-> 0]
    /\ last = NoStep
    /\ sentSince = <<0, 0, 1>>
    /\ won = {[task |-> 2, date |-> 0], [task |-> 3, date |-> 0]}
    /\ intervals = << <<>>, <<>>, <<>> >>

\* the users answer the notifications and type no further term
NextAnswering ==
    \/ clock
    \/ callback_handler
    \/ task_watcher
    \/ remind_task_to_user

TwoChatsSpec == TwoChatsInit /\ [][NextAnswering]_vars

\* a notification thread takes its next step, and the transport accepts the message
remind_task_to_user_delivers ==
    \E th \in BagToSet(threads) :
        \/ remind_set_status(th)
        \/ remind_send_message(th)

\* the user answers the notifications and types no further term
NextDelivering ==
    \/ clock
    \/ callback_handler
    \/ task_watcher
    \/ remind_task_to_user_delivers

\* the loop of task_watcher keeps turning and every started thread keeps
\* running (the thread of line 217 and the threads of line 199 are scheduled
\* by the operating system); nothing is assumed of the user or the clock
FairSpec ==
    /\ TwoTasksInit
    /\ [][NextDelivering]_vars
    /\ WF_vars(task_watcher)
    /\ WF_vars(remind_task_to_user_delivers)

----------------------------------------------------------------------------
(* Properties *)

\* the step just taken handled the callback query of a quiz answer
Answered(op) == last.op = op /\ last.signal = ""

\* C1: no double dispatch. Of the threads started for the same due row only
\* one has its set_status(WAITING_ANSWER) succeed, and at most one
\* notification has been sent for a task since it last left WAITING_ANSWER.
C1_NoDoubleDispatch ==
    /\ ~(last.op = "claim" /\ last.signal = "" /\ last.again)
    /\ \A i \in Ids : sentSince[i] <= 1

\* no two rows that are not DONE share (chat_id, content)
UniqueKeys ==
    \A i, j \in Ids :
        (/\ i # j
         /\ tasks[i].status # DONE
         /\ tasks[j].status # DONE
         /\ tasks[i].chat_id = tasks[j].chat_id)
        => tasks[i].content # tasks[j].content

\* a confirmed ADD_TASK for a key that has a row not DONE changes no row and
\* raises DuplicateActiveTask
DuplicateRefused ==
    (last'.op = ADD_TASK /\ Matching(last'.key[1], last'.key[2]) # {})
    => (tasks' = tasks /\ last'.signal = DuplicateActiveTask)

\* C2: duplicate creation is idempotent. No two rows that are not DONE share
\* their (chat_id, content), and a second confirmed ADD_TASK for the key of a
\* row that is not DONE leaves the table as it is and raises
\* DuplicateActiveTask.
C2_DuplicateCreation == []UniqueKeys /\ [][DuplicateRefused]_vars

C2_Witness ==
    /\ last.op = ADD_TASK
    /\ last.signal = DuplicateActiveTask
    /\ Cardinality(Matching(last.key[1], last.key[2])) = 1

\* C3: DONE is terminal. No step changes a row that is DONE, and no
\* notification is sent for it.
C3_DoneIsTerminal ==
    [][\A i \in Ids :
         tasks[i].status = DONE
         => /\ tasks'[i] = tasks[i]
            /\ ~(last'.op = "send" /\ last'.signal = "" /\ last'.task = i)]_vars

\* the intervals returned by the consecutive REMEMBER answers of row i grow
Growing(i) ==
    \A k \in 1..(Len(intervals[i]) - 1) : intervals[i][k] < intervals[i][k + 1]

\* C4: monotonic interval growth. The intervals returned by consecutive
\* REMEMBER answers of a task grow strictly, each REMEMBER below the learned
\* threshold returns one, and the REMEMBER that reaches the threshold returns
\* none and leaves the task DONE.
C4_MonotonicGrowth ==
    /\ \A i \in Ids : Growing(i)
    /\ (Answered(REMEMBER) /\ last.task # 0)
       => LET row == tasks[last.task]
          IN  /\ row.notification_count = last.was.notification_count + 1
              /\ IF row.notification_count >= LearnedThreshold
                 THEN row.status = DONE /\ last.ret = 0
                 ELSE /\ last.ret > 0
                      /\ row.status = ACTIVE
                      /\ row.notification_date = now + last.ret
                      /\ intervals[last.task][Len(intervals[last.task])] = last.ret

C4_Witness ==
    /\ Answered(REMEMBER)
    /\ last.task # 0
    /\ tasks[last.task].status = DONE
    /\ last.ret = 0
    /\ Len(intervals[last.task]) = LearnedThreshold - 1

\* C5: forgetting resets progress. After a FORGOT answer the row has
\* notification_count 0, is ACTIVE and is due BaseInterval from now, whatever
\* its count was.
C5_ForgotResets ==
    (Answered(FORGOT) /\ last.task # 0)
    => LET row == tasks[last.task]
       IN  /\ row.notification_count = 0
           /\ row.status = ACTIVE
           /\ row.notification_date = now + BaseInterval

C5_Witness ==
    /\ Answered(FORGOT)
    /\ last.task # 0
    /\ last.was.notification_count >= 1
    /\ tasks[last.task].notification_count = 0

\* C6: a task never fires early. When a notification is sent, its task is
\* WAITING_ANSWER and the time is not before the task's notification_date.
C6_NeverFiresEarly ==
    (last.op = "send" /\ last.signal = "")
    => /\ tasks[last.task].status = WAITING_ANSWER
       /\ tasks[last.task].notification_date <= now

\* C7: notification_date of a row changes only in the step that applies a
\* REMEMBER or FORGOT answer pressed on a notification sent for that row.
C7_DateOnlyByOwnAnswer ==
    [][\A i \in Ids :
         tasks'[i].notification_date # tasks[i].notification_date
         => /\ last'.op \in {REMEMBER, FORGOT}
            /\ last'.task = i
            /\ last'.src = i]_vars

\* C8: a quiz answer whose (chat_id, content) has no row that is not DONE gets
\* the generic error reply, and the table is left as it is.
C8_TaskNotFound ==
    [][(last'.op \in quiz_answers /\ Matching(last'.key[1], last'.key[2]) = {})
       => (tasks' = tasks /\ last'.reply = ERROR_MESSAGE /\ last'.task = 0)]_vars

C8_Witness ==
    /\ last.op \in quiz_answers
    /\ last.reply = ERROR_MESSAGE
    /\ AllOfKey(last.key[1], last.key[2]) # {}

\* a REMOVE answer leaves its row DONE
RemoveMakesDone ==
    (Answered(REMOVE) /\ last.task # 0) => tasks[last.task].status = DONE

\* task_watcher starts threads for ACTIVE rows only
NeverPolledWhenDone ==
    \A th \in BagToSet(threads') :
        (th.pc = "start" /\ CopiesIn(th, threads') > CopiesIn(th, threads))
        => tasks[th.task].status = ACTIVE

\* a confirmed ADD_TASK for a key all of whose rows are DONE appends an ACTIVE
\* row and leaves the other rows as they are
ReuseSucceeds ==
    (last'.op = ADD_TASK /\ Matching(last'.key[1], last'.key[2]) = {})
    => /\ last'.signal = ""
       /\ Len(tasks') = Len(tasks) + 1
       /\ SubSeq(tasks', 1, Len(tasks)) = tasks
       /\ tasks'[Len(tasks')].status = ACTIVE
       /\ <<tasks'[Len(tasks')].chat_id, tasks'[Len(tasks')].content>> = last'.key

\* C9: key reuse after removal. A REMOVE answer leaves the task DONE, no poll
\* starts a thread for a DONE task, and a confirmed ADD_TASK for a key whose
\* rows are all DONE creates a new ACTIVE row and leaves the DONE rows as
\* they are.
C9_KeyReuse ==
    []RemoveMakesDone /\ [][NeverPolledWhenDone /\ ReuseSucceeds]_vars

C9_Witness ==
    /\ Answered(ADD_TASK)
    /\ last.task = 2
    /\ tasks[2].status = ACTIVE
    /\ tasks[1].status = DONE
    /\ tasks[1].notification_count < LearnedThreshold
    /\ tasks[1].chat_id = tasks[2].chat_id
    /\ tasks[1].content = tasks[2].content

\* C10: the life of a task. A task created by a confirmed ADD_TASK is ACTIVE
\* with notification_count 0 and due at once; the first REMEMBER answer, given
\* while it is WAITING_ANSWER, leaves it ACTIVE with notification_count 1 and
\* due BaseInterval * GrowthFactor from now.
C10_Lifecycle ==
    /\ (Answered(ADD_TASK) /\ last.task # 0)
       => /\ tasks[last.task].status = ACTIVE
          /\ tasks[last.task].notification_count = 0
          /\ last.task \in get_active_tasks
    /\ (/\ Answered(REMEMBER)
        /\ last.task # 0
        /\ last.was.status = WAITING_ANSWER
        /\ last.was.notification_count = 0)
       => /\ tasks[last.task].status = ACTIVE
          /\ tasks[last.task].notification_count = 1
          /\ tasks[last.task].notification_date = now + BaseInterval * GrowthFactor
          /\ last.ret = BaseInterval * GrowthFactor

C10_Witness ==
    /\ Answered(REMEMBER)
    /\ last.task # 0
    /\ last.was.status = WAITING_ANSWER
    /\ last.was.notification_count = 0
    /\ tasks[last.task].notification_count = 1

\* the answer options, and contents of every shape: empty, short, holding the
\* separator, filling the payload to its last character, and too long
AnswerOptions == {REMEMBER, FORGOT, REMOVE, ADD_TASK, CANCEL}

CodecContents ==
    Texts \cup {format_task_content(t) : t \in Texts}
          \cup {<<>>, <<"a", "b">>, <<SEPARATOR>>, <<SEPARATOR, "a">>,
                [i \in 1..(PayloadLimit - 2) |-> "a"],
                [i \in 1..(PayloadLimit - 1) |-> "a"]}

\* decode and answerOf undo encode wherever encode accepts
RoundTrip ==
    \A option \in AnswerOptions, content \in CodecContents :
        LET token == encode_callback_data(option, content)
        IN  token # <<PayloadTooLong>>
            => /\ decode_callback_data(token) = content
               /\ decode_answer_option(token) = option

\* the notifications whose keyboard can still produce a callback query
Notifications == {m \in BagToSet(msgs) : m.task # 0}

LengthLaw ==
    \A option \in AnswerOptions, content \in CodecContents :
        LET token == encode_callback_data(option, content)
        IN  IF Len(content) + 2 > PayloadLimit
            THEN token = <<PayloadTooLong>>
            ELSE Len(token) = Len(content) + 2

\* every stored content is one encode accepts
NoTruncatedTask ==
    \A i \in Ids :
        encode_callback_data(ADD_TASK, tasks[i].content) # <<PayloadTooLong>>

\* a term that cannot be encoded is answered with a rejection and stores nothing
TooLongRejected ==
    (last'.op = "text" /\ last'.signal = PayloadTooLong)
    => /\ tasks' = tasks
       /\ last'.reply # ""

\* C12: a term that does not fit the payload limit makes encode fail with
\* PayloadTooLong instead of truncating, the user is told of the rejection,
\* and no task is created for it.
C12_PayloadTooLong ==
    [](LengthLaw /\ NoTruncatedTask) /\ [][TooLongRejected]_vars

\* C13: the polling loop survives. Whatever fails for one task (the query
\* for the due rows, the encoding of the buttons, the status write, the send),
\* task_watcher keeps running, so that every later turn polls again.
C13_LoopSurvives == watcher = "running"

\* the threads a step starts
Started(th) == th.pc = "start" /\ CopiesIn(th, threads') > CopiesIn(th, threads)

\* a thread is started for a row only once the row is WAITING_ANSWER
ClaimedBeforeStart ==
    \A th \in BagToSet(threads') :
        Started(th) => tasks'[th.task].status = WAITING_ANSWER

\* a row for which a turn has started a thread is not ACTIVE and due at the
\* next turn, unless an answer has changed it since
NotDueAgain ==
    \A th \in BagToSet(threads) :
        tasks[th.task] = [th.snap EXCEPT !.status = tasks[th.task].status]
        => th.task \notin get_active_tasks

\* C14: claim, then dispatch. task_watcher makes a due row WAITING_ANSWER
\* before it starts the notification thread for it, so a row dispatched by
\* one turn is not returned as due by the next turn unless it was answered
\* in between.
C14_ClaimThenDispatch == []NotDueAgain /\ [][ClaimedBeforeStart]_vars

\* C15: quiz answers are applied from WAITING_ANSWER only. A step that
\* handles a REMEMBER, FORGOT or REMOVE answer changes a row only if the row
\* was WAITING_ANSWER, so a notification has at most one answer applied.
C15_AnswerOnlyWhenWaiting ==
    [][\A i \in Ids :
         (last'.op \in quiz_answers /\ tasks'[i] # tasks[i])
         => tasks[i].status = WAITING_ANSWER]_vars

\* the step ends the thread th with an exception
Failed(th) ==
    /\ CopiesIn(th, threads') < CopiesIn(th, threads)
    /\ last'.op \in {"claim", "send"}
    /\ last'.signal # ""

\* the row of thread th has had an answer applied since task_watcher read it
AnsweredSince(th) ==
    \/ tasks[th.task].status = DONE
    \/ tasks[th.task] # [th.snap EXCEPT !.status = tasks[th.task].status]

\* a failing thread changes no row, and leaves its task WAITING_ANSWER unless
\* an answer has been applied to it in between
WaitingAfterFailure ==
    \A th \in BagToSet(threads) :
        Failed(th)
        => /\ tasks' = tasks
           /\ tasks'[th.task].status = WAITING_ANSWER \/ AnsweredSince(th)

\* no thread is started for a row that is WAITING_ANSWER
NoRetryWhileWaiting ==
    \A th \in BagToSet(threads') :
        Started(th) => tasks[th.task].status # WAITING_ANSWER

Due(i) ==
    /\ i \in Ids
    /\ tasks[i].status = ACTIVE
    /\ tasks[i].notification_date <= now

\* task_watcher can still start a thread for every row there may be
ThreadsLeft == used.threads + MaxTasks <= MaxThreads

\* a notification for row i has just been sent
Notified(i) == last.op = "send" /\ last.signal = "" /\ last.task = i

C18_ReplySelection ==
    (Answered(REMEMBER) /\ last.task # 0)
    => LET row == tasks[last.task]
       IN  /\ last.reply \in {TERM_HAS_LEARNED, REMEMBER_REPLY}
           /\ last.reply = TERM_HAS_LEARNED <=> row.status = DONE
           /\ last.reply = TERM_HAS_LEARNED <=> last.ret = 0
           /\ last.reply = REMEMBER_REPLY
              => /\ last.ret > 0
                 /\ row.notification_date = now + last.ret

C18_Witness ==
    /\ last.op = REMEMBER
    /\ last.reply = TERM_HAS_LEARNED
    /\ tasks[last.task].status = DONE
    /\ \E k \in 1..Len(intervals[last.task]) :
           intervals[last.task][k] = BaseInterval * GrowthFactor

\* the callback data of the buttons of a bag of messages
AnswerOptionTokens(b) == UNION {m.buttons : m \in BagToSet(b)}

\* a step that handles a typed text or a CANCEL answer leaves the table as it is
NoTaskWithoutConfirmation ==
    (used'.texts # used.texts \/ last'.op = CANCEL) => tasks' = tasks

\* rows are only added, one at a time, by the step that handles an ADD_TASK
\* answer, with the chat of the pressed button and the decoded content
CreatedByAddTask ==
    Len(tasks') # Len(tasks)
    => /\ last'.op = ADD_TASK
       /\ last'.signal = ""
       /\ Len(tasks') = Len(tasks) + 1
       /\ SubSeq(tasks', 1, Len(tasks)) = tasks
       /\ last'.task = Len(tasks')
       /\ \E m \in BagToSet(msgs), data \in AnswerOptionTokens(msgs) :
              /\ data \in m.buttons
              /\ decode_answer_option(data) = ADD_TASK
              /\ tasks'[Len(tasks')].chat_id = m.chat_id
              /\ tasks'[Len(tasks')].content = decode_callback_data(data)

\* C19: task creation requires confirmation. Handling a typed text or a
\* CANCEL answer leaves the table unchanged; a row is created only by
\* handling an ADD_TASK token, one row per handling, with the chat of the
\* pressed button and the content decoded from the token.
C19_CreationNeedsConfirmation ==
    [][NoTaskWithoutConfirmation /\ CreatedByAddTask]_vars

C19_Witness ==
    /\ Answered(ADD_TASK)
    /\ last.task = 1
    /\ Len(tasks) = 1
    /\ <<tasks[1].chat_id, tasks[1].content>> = last.key
    /\ used.texts = MaxTexts
    /\ msgs = EmptyBag

\* the key of a row
KeyOf(row) == <<row.chat_id, row.content>>

\* a step changes at most one row, and it is the row of the key of the answer
\* handled, or the row the notification thread was started for
OnlyOwnTask ==
    /\ Len(tasks') >= Len(tasks)
    /\ \A i, j \in Ids : (tasks'[i] # tasks[i] /\ tasks'[j] # tasks[j]) => i = j
    /\ \A i \in Ids :
           tasks'[i] # tasks[i]
           => /\ last'.task = i
              /\ KeyOf(tasks'[i]) = KeyOf(tasks[i])
              /\ \/ last'.op \in quiz_answers /\ last'.key = KeyOf(tasks[i])
                 \/ last'.op = "claim"

\* C20: tasks are independent. Handling an answer from chat c that carries
\* content x changes at most the one row keyed (c, x), and a notification
\* thread changes at most the row it was started for; every other row, of
\* the same content in another chat or of another content in the same chat,
\* stays as it is.
C20_TaskIndependence == [][OnlyOwnTask]_vars

C20_Witness ==
    /\ last.op \in {REMEMBER, FORGOT}
    /\ last.key = <<2, <<"a">>>>
    /\ last.task = 3
    /\ tasks[3] # TwoChatsRows[3]
    /\ tasks[1] = [TwoChatsRows[1] EXCEPT !.status = WAITING_ANSWER]
    /\ tasks[2] = TwoChatsRows[2]

====
